---- MODULE Spec2Model ----
(***************************************************************************)
(* Model of scripts/nlp_language_modeling/hf_t5-v1_1_to_nemo.py:           *)
(* convert_weights, the pass that remaps a Huggingface T5-v1_1 state dict  *)
(* into NeMo-Megatron parameter names.                                     *)
(*                                                                         *)
(* A checkpoint key is the sequence of its dot-separated segments, so      *)
(* k.split('.') is the key itself and k.split('.')[n] is k[n+1].  Segments *)
(* are atomic: a Python substring test on the dotted name is a contiguous  *)
(* sub-sequence test on the segments, except for 'layer_norm' and 'final', *)
(* which also occur inside the segment 'final_layer_norm'.                 *)
(* A tensor is the sequence of its rows (dimension 0); torch.cat(dim=0) is *)
(* sequence concatenation.  An OrderedDict is a sequence of key/value      *)
(* items without repeated keys.                                            *)
(***************************************************************************)
EXTENDS Integers, Sequences, FiniteSets, TLC

\* convert_weights
VARIABLES hf_weights, nemo_weights, i, pc, err, state_dict_file
\* __main__ and package_into_nemo_file
VARIABLES base_yaml_exists, hf_model_config, base_cfg, model, nemo_file
\* rescale_linear_bias: the layer, the layer as constructed, the result of
\* every call so far
VARIABLES linear, linear0, calls
\* drop_examples
VARIABLES manifest, graphemes_to_exclude, line_no, f_out, num_dropped
\* megatron_gpt_prefix_tuning_eval.main
VARIABLES cfg, eval_pc, eval_err, eval_model, response, output

convVars == <<hf_weights, nemo_weights, i, pc, err, state_dict_file>>

mainVars == <<base_yaml_exists, hf_model_config, base_cfg, model, nemo_file>>

mupVars == <<linear, linear0, calls>>

g2pVars == <<manifest, graphemes_to_exclude, line_no, f_out, num_dropped>>

evalVars == <<cfg, eval_pc, eval_err, eval_model, response, output>>

vars == <<convVars, mainVars, mupVars, g2pVars, evalVars>>

(* ---------------------------- bounds ---------------------------------- *)

\* largest number of encoder (and of decoder) blocks of a well-formed checkpoint
MaxBlocks == 2
\* largest number of keys of an arbitrary (possibly malformed) checkpoint
MaxKeys == 2
\* rows of every source tensor (the H of an (H, H) projection)
TensorRows == 2
\* largest decimal literal that occurs as a key segment
MaxLit == 3
\* largest number of calls of rescale_linear_bias and resets of its flag
MaxCalls == 3
\* largest number of lines of a manifest given to drop_examples
MaxLines == 2
\* largest value of devices, num_nodes and the two model parallel sizes
MaxDevices == 2

(* ------------------------- OrderedDict -------------------------------- *)

Item(key, val) == [k |-> key, v |-> val]

KeySet(d) == {d[j].k : j \in 1..Len(d)}

Has(d, key) == \E j \in 1..Len(d) : d[j].k = key

Get(d, key) == d[CHOOSE j \in 1..Len(d) : d[j].k = key].v

\* d[key] = val: an existing key keeps its position, a new key is appended
Put(d, key, val) ==
    IF Has(d, key)
    THEN [j \in 1..Len(d) |-> IF d[j].k = key THEN Item(key, val) ELSE d[j]]
    ELSE Append(d, Item(key, val))

\* the mapping without its insertion order
AsMap(d) == [key \in KeySet(d) |-> Get(d, key)]

(* --------------------------- tensors ---------------------------------- *)

\* the tensor stored under source key k: rows that no other tensor has
TensorOf(k) == [r \in 1..TensorRows |-> <<k, r>>]

RECURSIVE Cat(_)
\* torch.cat(tensors, dim=0)
Cat(tensors) ==
    IF tensors = <<>> THEN <<>> ELSE Head(tensors) \o Cat(Tail(tensors))

(* ------------------------ string operations --------------------------- *)

\* pat in k, for a pattern made of whole segments
Contains(k, pat) ==
    \E s \in 0..(Len(k) - Len(pat)) : SubSeq(k, s + 1, s + Len(pat)) = pat

\* 'layer_norm' in k
ContainsLayerNorm(k) ==
    \E j \in 1..Len(k) : k[j] \in {"layer_norm", "final_layer_norm"}

\* 'final' in k
ContainsFinal(k) == \E j \in 1..Len(k) : k[j] \in {"final_layer_norm"}

\* k.startswith(root)
StartsWith(k, root) == Len(k) >= 1 /\ k[1] = root

RECURSIVE Replace(_, _, _)
\* k.replace(old, new): every non-overlapping occurrence, leftmost first
Replace(k, old, new) ==
    IF Len(k) < Len(old) THEN k
    ELSE IF SubSeq(k, 1, Len(old)) = old
         THEN new \o Replace(SubSeq(k, Len(old) + 1, Len(k)), old, new)
         ELSE <<Head(k)>> \o Replace(Tail(k), old, new)

\* the segments int() accepts: decimal literals, with or without leading zero
IsIntLiteral(s) ==
    \/ \E n \in 0..MaxLit : s = ToString(n)
    \/ s \in {"00"}

\* int(s)
IntOf(s) ==
    IF s = "00" THEN 0 ELSE CHOOSE n \in 0..MaxLit : s = ToString(n)

\* f'{n}'
StrOf(n) == ToString(n)

(* ------------------------------ errors -------------------------------- *)

\* an exception: its type, and its message as a fixed text followed by the
\* value formatted into it (a key, a segment, or nothing)
Raise(type, text, arg) == [type |-> type, text |-> text, arg |-> arg]

NoError == Raise("", "", <<>>)

\* the outcome of one statement block: the two mappings and the exception raised
Outcome(hf, nw, e) == [hf |-> hf, nw |-> nw, err |-> e]

(* ------------------- _get_model_type_block_layer ---------------------- *)

\* int(k.split('.')[n]) for the 0-based position n: the exception it raises
IntAtError(k, n) ==
    IF Len(k) < n + 1 THEN Raise("IndexError", "list index out of range", <<>>)
    ELSE IF ~IsIntLiteral(k[n + 1])
         THEN Raise("ValueError", "invalid literal for int() with base 10: ", <<k[n + 1]>>)
         ELSE NoError

\* a bug: the two positions are taken for each other
GetModelTypeBlockLayerSwapped(k) ==
    IF ~(StartsWith(k, "encoder") \/ StartsWith(k, "decoder"))
    THEN [err |-> Raise("ValueError", "Unknown model type for ", k),
          model_type |-> "", block_number |-> 0, layer_number |-> 0]
    ELSE IF IntAtError(k, 2) # NoError
    THEN [err |-> IntAtError(k, 2),
          model_type |-> k[1], block_number |-> 0, layer_number |-> 0]
    ELSE IF IntAtError(k, 4) # NoError
    THEN [err |-> IntAtError(k, 4),
          model_type |-> k[1], block_number |-> 0, layer_number |-> IntOf(k[3])]
    ELSE [err |-> NoError,
          model_type |-> k[1], block_number |-> IntOf(k[5]), layer_number |-> IntOf(k[3])]

GetModelTypeBlockLayer(k) ==
    IF ~(StartsWith(k, "encoder") \/ StartsWith(k, "decoder"))
    THEN [err |-> Raise("ValueError", "Unknown model type for ", k),
          model_type |-> "", block_number |-> 0, layer_number |-> 0]
    ELSE IF IntAtError(k, 2) # NoError
    THEN [err |-> IntAtError(k, 2),
          model_type |-> k[1], block_number |-> 0, layer_number |-> 0]
    ELSE IF IntAtError(k, 4) # NoError
    THEN [err |-> IntAtError(k, 4),
          model_type |-> k[1], block_number |-> IntOf(k[3]), layer_number |-> 0]
    ELSE [err |-> NoError,
          model_type |-> k[1], block_number |-> IntOf(k[3]), layer_number |-> IntOf(k[5])]

(* ---------------------------- target keys ----------------------------- *)

\* f'enc_dec_model.enc_dec_model.{model_type}.model.layers.{block_number}.<leaf>'
LayerKey(model_type, block_number, leaf) ==
    <<"enc_dec_model", "enc_dec_model", model_type, "model", "layers", StrOf(block_number)>>
        \o leaf

\* f'enc_dec_model.enc_dec_model.{model_type}.model.final_layernorm.weight'
FinalLayernormKey(model_type) ==
    <<"enc_dec_model", "enc_dec_model", model_type, "model", "final_layernorm", "weight">>

TokensHeadKey == <<"enc_dec_model", "tokens_head", "weight">>

WordEmbeddingsKey(role) ==
    <<"enc_dec_model", role, "word_embeddings", "weight">>

RelativePositionKey(role) ==
    <<"enc_dec_model", role, "relative_position_embedding", "weight">>

\* the source key of block 0's relative attention bias
RelativeBiasSource(root) ==
    <<root, "block", "0", "layer", "0", "SelfAttention", "relative_attention_bias", "weight">>

(* -------------------------- handling rules ---------------------------- *)

\* a rule that parses the key and writes v unchanged under a layer key
Rename(hf, nw, k, v, role, leaf) ==
    LET p == GetModelTypeBlockLayer(k) IN
    IF p.err # NoError THEN Outcome(hf, nw, p.err)
    ELSE Outcome(hf,
                 Put(nw, LayerKey(IF role = "" THEN p.model_type ELSE role,
                                  p.block_number, leaf), v),
                 NoError)

\* a bug: the projections are fused in the order (key, query, value)
QueryKeyValueSwapped(v, k_weight, v_weight) == Cat(<<k_weight, v, v_weight>>)

\* torch.cat([v, k_weight, v_weight], dim=0)
QueryKeyValue(v, k_weight, v_weight) == Cat(<<v, k_weight, v_weight>>)

\* a bug: hf_weights.get(...) with an empty default, so that a missing sibling
\* is fused as nothing instead of raising KeyError
SelfAttentionQPartial(hf, nw, k, v) ==
    LET p == GetModelTypeBlockLayer(k)
        kk == Replace(k, <<"q", "weight">>, <<"k", "weight">>)
        kv == Replace(k, <<"q", "weight">>, <<"v", "weight">>)
        get(key) == IF Has(hf, key) THEN Get(hf, key) ELSE <<>>
    IN  IF p.err # NoError THEN Outcome(hf, nw, p.err)
        ELSE Outcome(hf,
                     Put(nw,
                         LayerKey(p.model_type, p.block_number,
                                  <<"self_attention", "query_key_value", "weight">>),
                         QueryKeyValue(v, get(kk), get(kv))),
                     NoError)

\* the mapping without the item of key
Pop(d, key) == SelectSeq(d, LAMBDA it : it.k # key)

\* a bug: hf_weights.pop(...) takes the siblings out of the source mapping
SelfAttentionQPop(hf, nw, k, v) ==
    LET p == GetModelTypeBlockLayer(k)
        kk == Replace(k, <<"q", "weight">>, <<"k", "weight">>)
        kv == Replace(k, <<"q", "weight">>, <<"v", "weight">>)
    IN  IF p.err # NoError THEN Outcome(hf, nw, p.err)
        ELSE IF ~Has(hf, kk) THEN Outcome(hf, nw, Raise("KeyError", "", kk))
        ELSE IF ~Has(hf, kv) THEN Outcome(hf, nw, Raise("KeyError", "", kv))
        ELSE Outcome(Pop(Pop(hf, kk), kv),
                     Put(nw,
                         LayerKey(p.model_type, p.block_number,
                                  <<"self_attention", "query_key_value", "weight">>),
                         QueryKeyValue(v, Get(hf, kk), Get(hf, kv))),
                     NoError)

\* 'SelfAttention.q.weight' in k
SelfAttentionQ(hf, nw, k, v) ==
    LET p == GetModelTypeBlockLayer(k)
        kk == Replace(k, <<"q", "weight">>, <<"k", "weight">>)
        kv == Replace(k, <<"q", "weight">>, <<"v", "weight">>)
    IN  IF p.err # NoError THEN Outcome(hf, nw, p.err)
        ELSE IF ~Has(hf, kk) THEN Outcome(hf, nw, Raise("KeyError", "", kk))
        ELSE IF ~Has(hf, kv) THEN Outcome(hf, nw, Raise("KeyError", "", kv))
        ELSE Outcome(hf,
                     Put(nw,
                         LayerKey(p.model_type, p.block_number,
                                  <<"self_attention", "query_key_value", "weight">>),
                         QueryKeyValue(v, Get(hf, kk), Get(hf, kv))),
                     NoError)

\* a bug: the projections are fused in the order (value, key)
KeyValueSwapped(v, v_weight) == Cat(<<v_weight, v>>)

\* torch.cat([v, v_weight], dim=0)
KeyValue(v, v_weight) == Cat(<<v, v_weight>>)

\* 'EncDecAttention.k.weight' in k
EncDecAttentionK(hf, nw, k, v) ==
    LET p == GetModelTypeBlockLayer(k)
        kv == Replace(k, <<"k", "weight">>, <<"v", "weight">>)
    IN  IF p.err # NoError THEN Outcome(hf, nw, p.err)
        ELSE IF ~Has(hf, kv) THEN Outcome(hf, nw, Raise("KeyError", "", kv))
        ELSE Outcome(hf,
                     Put(nw,
                         LayerKey("decoder", p.block_number,
                                  <<"inter_attention", "key_value", "weight">>),
                         KeyValue(v, Get(hf, kv))),
                     NoError)

\* a bug: the decoder's third sub-layer is written as its second
LayernormLeafNoInter(model_type, layer_number) ==
    IF layer_number = 0 THEN <<"input_layernorm", "weight">>
    ELSE <<"post_attention_layernorm", "weight">>

\* the leaf a (model_type, layer_number) pair selects, <<>> when there is none
LayernormLeaf(model_type, layer_number) ==
    IF layer_number = 0 /\ model_type = "encoder" THEN <<"input_layernorm", "weight">>
    ELSE IF layer_number = 1 /\ model_type = "encoder"
         THEN <<"post_attention_layernorm", "weight">>
    ELSE IF layer_number = 0 /\ model_type = "decoder" THEN <<"input_layernorm", "weight">>
    ELSE IF layer_number = 1 /\ model_type = "decoder"
         THEN <<"post_attention_layernorm", "weight">>
    ELSE IF layer_number = 2 /\ model_type = "decoder"
         THEN <<"post_inter_attention_layernorm", "weight">>
    ELSE <<>>

\* model_type = 'encoder' if k.startswith('encoder') else 'decoder'
FinalModelType(k) == IF StartsWith(k, "encoder") THEN "encoder" ELSE "decoder"

\* 'layer_norm' in k
LayerNorm(hf, nw, k, v) ==
    IF ContainsFinal(k)
    THEN Outcome(hf, Put(nw, FinalLayernormKey(FinalModelType(k)), v), NoError)
    ELSE LET p == GetModelTypeBlockLayer(k) IN
         IF p.err # NoError THEN Outcome(hf, nw, p.err)
         ELSE IF LayernormLeaf(p.model_type, p.layer_number) = <<>>
              THEN Outcome(hf, nw, Raise("ValueError", "Unknown layer_norm key: ", k))
              ELSE Outcome(hf,
                           Put(nw, LayerKey(p.model_type, p.block_number,
                                            LayernormLeaf(p.model_type, p.layer_number)), v),
                           NoError)

\* a bug: the key no rule matches is skipped
UnknownKeySkipped(hf, nw, k) == Outcome(hf, nw, NoError)

\* raise ValueError(f"Unknown key: {k}")
UnknownKey(hf, nw, k) == Outcome(hf, nw, Raise("ValueError", "Unknown key: ", k))

\* the body of `for k, v in hf_weights.items()`
LoopBody(hf, nw, k, v) ==
    IF k = <<"shared", "weight">> THEN Outcome(hf, nw, NoError)
    ELSE IF k = <<"lm_head", "weight">>
    THEN Outcome(hf, Put(nw, TokensHeadKey, v), NoError)
    ELSE IF k = <<"decoder", "embed_tokens", "weight">>
    THEN Outcome(hf, Put(nw, WordEmbeddingsKey("decoder_embedding"), v), NoError)
    ELSE IF k = <<"encoder", "embed_tokens", "weight">>
    THEN Outcome(hf, Put(nw, WordEmbeddingsKey("encoder_embedding"), v), NoError)
    ELSE IF k = RelativeBiasSource("encoder")
    THEN Outcome(hf, Put(nw, RelativePositionKey("encoder_relative_position_embedding"), v),
                 NoError)
    ELSE IF k = RelativeBiasSource("decoder")
    THEN Outcome(hf, Put(nw, RelativePositionKey("decoder_relative_position_embedding"), v),
                 NoError)
    ELSE IF Contains(k, <<"SelfAttention", "q", "weight">>)
    THEN SelfAttentionQ(hf, nw, k, v)
    ELSE IF \/ Contains(k, <<"SelfAttention", "k", "weight">>)
            \/ Contains(k, <<"SelfAttention", "v", "weight">>)
    THEN Outcome(hf, nw, NoError)
    ELSE IF Contains(k, <<"SelfAttention", "o", "weight">>)
    THEN Rename(hf, nw, k, v, "", <<"self_attention", "dense", "weight">>)
    ELSE IF Contains(k, <<"EncDecAttention", "k", "weight">>)
    THEN EncDecAttentionK(hf, nw, k, v)
    ELSE IF Contains(k, <<"EncDecAttention", "v", "weight">>)
    THEN Outcome(hf, nw, NoError)
    ELSE IF Contains(k, <<"EncDecAttention", "q", "weight">>)
    THEN Rename(hf, nw, k, v, "decoder", <<"inter_attention", "query", "weight">>)
    ELSE IF Contains(k, <<"EncDecAttention", "o", "weight">>)
    THEN Rename(hf, nw, k, v, "decoder", <<"inter_attention", "dense", "weight">>)
    ELSE IF Contains(k, <<"DenseReluDense", "wi_0", "weight">>)
    THEN Rename(hf, nw, k, v, "", <<"mlp", "dense_h_to_4h", "weight">>)
    ELSE IF Contains(k, <<"DenseReluDense", "wi_1", "weight">>)
    THEN Rename(hf, nw, k, v, "", <<"mlp", "dense_h_to_4h_2", "weight">>)
    ELSE IF Contains(k, <<"DenseReluDense", "wo", "weight">>)
    THEN Rename(hf, nw, k, v, "", <<"mlp", "dense_4h_to_h", "weight">>)
    ELSE IF ContainsLayerNorm(k) THEN LayerNorm(hf, nw, k, v)
    ELSE UnknownKey(hf, nw, k)

(* ------------------------ source checkpoints -------------------------- *)

\* the parameter names of one block of T5ForConditionalGeneration, in
\* state_dict order
BlockKeys(root, b) ==
    LET at(l, tail) == <<root, "block", StrOf(b), "layer", StrOf(l)>> \o tail
        attention(l, name) ==
            <<at(l, <<name, "q", "weight">>), at(l, <<name, "k", "weight">>),
              at(l, <<name, "v", "weight">>), at(l, <<name, "o", "weight">>)>>
        bias == IF b = 0 THEN <<RelativeBiasSource(root)>> ELSE <<>>
        norm(l) == <<at(l, <<"layer_norm", "weight">>)>>
        dense(l) ==
            <<at(l, <<"DenseReluDense", "wi_0", "weight">>),
              at(l, <<"DenseReluDense", "wi_1", "weight">>),
              at(l, <<"DenseReluDense", "wo", "weight">>)>>
    IN  IF root = "encoder"
        THEN attention(0, "SelfAttention") \o bias \o norm(0) \o dense(1) \o norm(1)
        ELSE attention(0, "SelfAttention") \o bias \o norm(0)
                 \o attention(1, "EncDecAttention") \o norm(1) \o dense(2) \o norm(2)

RECURSIVE StackKeys(_, _)
\* the blocks 0..n-1 of one stack
StackKeys(root, n) ==
    IF n = 0 THEN <<>> ELSE StackKeys(root, n - 1) \o BlockKeys(root, n - 1)

\* the parameter names of a T5-v1_1 model with E encoder and D decoder blocks
WellFormedKeys(E, D) ==
    <<<<"shared", "weight">>, <<"encoder", "embed_tokens", "weight">>>>
        \o StackKeys("encoder", E)
        \o <<<<"encoder", "final_layer_norm", "weight">>,
             <<"decoder", "embed_tokens", "weight">>>>
        \o StackKeys("decoder", D)
        \o <<<<"decoder", "final_layer_norm", "weight">>, <<"lm_head", "weight">>>>

Reverse(s) == [j \in 1..Len(s) |-> s[Len(s) + 1 - j]]

\* keys a checkpoint of another architecture or library version may hold
OtherKeys ==
    { <<"shared", "weight">>,
      <<"lm_head", "weight">>,
      <<"encoder", "block", "0", "layer", "0", "SelfAttention", "unexpected", "weight">>,
      <<"encoder", "block", "0", "layer", "1", "DenseReluDense", "wi", "weight">>,
      <<"encoder", "block", "0", "layer", "0", "SelfAttention", "q", "weight">>,
      <<"encoder", "block", "0", "layer", "0", "SelfAttention", "k", "weight">>,
      <<"encoder", "block", "0", "layer", "0", "SelfAttention", "v", "weight">>,
      <<"encoder", "block", "0", "layer", "0", "SelfAttention", "o", "weight">>,
      <<"encoder", "block", "0", "layer", "1", "SelfAttention", "o", "weight">>,
      <<"encoder", "block", "00", "layer", "0", "SelfAttention", "o", "weight">>,
      <<"encoder", "block", "x", "layer", "0", "SelfAttention", "o", "weight">>,
      <<"encoder", "block", "0", "SelfAttention", "q", "weight">>,
      <<"transformer", "block", "0", "layer", "0", "SelfAttention", "o", "weight">>,
      <<"decoder", "block", "0", "layer", "1", "EncDecAttention", "q", "weight">>,
      <<"decoder", "block", "0", "layer", "1", "EncDecAttention", "k", "weight">>,
      <<"decoder", "block", "0", "layer", "1", "EncDecAttention", "v", "weight">>,
      <<"encoder", "block", "0", "layer", "1", "EncDecAttention", "o", "weight">>,
      <<"encoder", "block", "0", "layer", "1", "layer_norm", "weight">>,
      <<"encoder", "block", "0", "layer", "2", "layer_norm", "weight">>,
      <<"decoder", "block", "0", "layer", "3", "layer_norm", "weight">>,
      <<"encoder", "block", "0", "layer_norm">>,
      <<"decoder", "final_layer_norm", "weight">>,
      <<"lm_head", "final_layer_norm", "weight">> }

\* the orders in which a checkpoint may hold up to MaxKeys of the other keys
OtherOrders ==
    { s \in UNION { [1..n -> OtherKeys] : n \in 0..MaxKeys } :
        \A a, b \in 1..Len(s) : a # b => s[a] # s[b] }

\* hf_weights = torch.load(...): the OrderedDict holding the keys in this order
Checkpoint(keys) == [j \in 1..Len(keys) |-> Item(keys[j], TensorOf(keys[j]))]

SourceCheckpoints ==
    { Checkpoint(WellFormedKeys(E, D)) : E \in 0..MaxBlocks, D \in 0..MaxBlocks }
        \cup { Checkpoint(Reverse(WellFormedKeys(E, D))) :
                   E \in 0..MaxBlocks, D \in 0..MaxBlocks }
        \cup { Checkpoint(s) : s \in OtherOrders }

\* the leaves of the keys that a rule parsing the block index writes a
\* target entry for
BlockLeaves ==
    { <<"SelfAttention", "q", "weight">>, <<"SelfAttention", "o", "weight">>,
      <<"EncDecAttention", "k", "weight">>, <<"EncDecAttention", "q", "weight">>,
      <<"EncDecAttention", "o", "weight">>,
      <<"DenseReluDense", "wi_0", "weight">>, <<"DenseReluDense", "wi_1", "weight">>,
      <<"DenseReluDense", "wo", "weight">>,
      <<"layer_norm", "weight">> }

\* the keys whose tensors the rule of leaf fuses with the tensor of its key
SiblingLeaves(leaf) ==
    IF leaf = <<"SelfAttention", "q", "weight">>
    THEN << <<"SelfAttention", "k", "weight">>, <<"SelfAttention", "v", "weight">> >>
    ELSE IF leaf = <<"EncDecAttention", "k", "weight">>
    THEN << <<"EncDecAttention", "v", "weight">> >>
    ELSE <<>>

\* checkpoints of one block key, with the block index, the sub-layer index,
\* the root module and a deeper nesting varied, and the siblings it needs
BlockKeyCheckpoints ==
    { Checkpoint(<<stem \o leaf \o trail>>
                     \o [n \in 1..Len(SiblingLeaves(leaf)) |->
                            stem \o SiblingLeaves(leaf)[n] \o trail]) :
        stem \in { <<root, "block", b, "layer", l>> :
                       root \in {"encoder", "decoder"},
                       b \in {"0", "00", StrOf(MaxLit)},
                       l \in {"0", "1", "2", StrOf(MaxLit)} },
        leaf \in BlockLeaves,
        trail \in {<<>>, <<"extra">>} }

(* ------------------------- convert_weights ---------------------------- *)

NotWritten == [written |-> FALSE, content |-> <<>>]

\* the configuration of a T5-v1_1 model (google/t5-v1_1-small) with the given
\* activation function
ModelConfig(dense_act_fn) ==
    [dense_act_fn |-> dense_act_fn, num_layers |-> 8, num_decoder_layers |-> 8,
     d_model |-> 512, d_ff |-> 1024, d_kv |-> 64, num_heads |-> 6,
     relative_attention_num_buckets |-> 32]

\* a value that is not set yet
None == [none |-> TRUE]

\* the state of __main__ and package_into_nemo_file while convert_weights runs
MainAtConvert ==
    /\ base_yaml_exists = TRUE
    /\ hf_model_config = ModelConfig("gelu_new")
    /\ base_cfg = None
    /\ model = None
    /\ nemo_file = NotWritten

\* no linear layer is being rescaled
MupIdle == linear = None /\ linear0 = None /\ calls = <<>>

\* no manifest is being filtered
G2PIdle ==
    /\ manifest = <<>>
    /\ graphemes_to_exclude = None
    /\ line_no = 0
    /\ f_out = <<>>
    /\ num_dropped = 0

\* the evaluation script is not running
EvalIdle ==
    /\ cfg = None
    /\ eval_pc = "idle"
    /\ eval_err = NoError
    /\ eval_model = None
    /\ response = None
    /\ output = NotWritten

Init ==
    /\ hf_weights \in SourceCheckpoints
    /\ nemo_weights = <<>>
    /\ i = 0
    /\ pc = "loop"
    /\ err = NoError
    /\ state_dict_file = NotWritten
    /\ MainAtConvert /\ MupIdle /\ G2PIdle /\ EvalIdle

\* one iteration of the loop over hf_weights.items(); an exception ends the run
ProcessKey ==
    /\ pc = "loop"
    /\ i < Len(hf_weights)
    /\ LET r == LoopBody(hf_weights, nemo_weights, hf_weights[i + 1].k, hf_weights[i + 1].v)
       IN  /\ hf_weights' = r.hf
           /\ nemo_weights' = r.nw
           /\ err' = r.err
           /\ i' = IF r.err = NoError THEN i + 1 ELSE i
           /\ pc' = IF r.err = NoError THEN "loop" ELSE "error"
    /\ UNCHANGED <<state_dict_file, mainVars, mupVars, g2pVars, evalVars>>

\* a bug: torch.save inside the loop, which ends the pass at the first key
SaveStateDictEarly ==
    /\ pc = "loop"
    /\ state_dict_file' = [written |-> TRUE, content |-> nemo_weights]
    /\ pc' = "saved"
    /\ UNCHANGED <<hf_weights, nemo_weights, i, err>>
    /\ UNCHANGED <<mainVars, mupVars, g2pVars, evalVars>>

\* torch.save(nemo_weights, nemo_state_dict_path) after the loop
SaveStateDict ==
    /\ pc = "loop"
    /\ i = Len(hf_weights)
    /\ state_dict_file' = [written |-> TRUE, content |-> nemo_weights]
    /\ pc' = "saved"
    /\ UNCHANGED <<hf_weights, nemo_weights, i, err>>
    /\ UNCHANGED <<mainVars, mupVars, g2pVars, evalVars>>

Next == ProcessKey \/ SaveStateDict

Spec == Init /\ [][Next]_vars

\* convert_weights on the checkpoints of one block key
InitBlockKeys ==
    /\ hf_weights \in BlockKeyCheckpoints
    /\ nemo_weights = <<>>
    /\ i = 0
    /\ pc = "loop"
    /\ err = NoError
    /\ state_dict_file = NotWritten
    /\ MainAtConvert /\ MupIdle /\ G2PIdle /\ EvalIdle

SpecBlockKeys == InitBlockKeys /\ [][Next]_vars

(* ------------------ __main__, package_into_nemo_file ------------------- *)

\* the dense_act_fn values a source configuration may hold
ActivationNames == {"silu", "gelu_new", "relu"}

\* the checkpoints the whole tool is run on: the well-formed ones with at
\* least one block per stack, and the checkpoints of one other key
MainCheckpoints ==
    { Checkpoint(WellFormedKeys(E, D)) : E \in 1..MaxBlocks, D \in 1..MaxBlocks }
        \cup { Checkpoint(<<k>>) : k \in OtherKeys }

\* a bug: every activation is taken as gelu
ActFnDefault(dense_act_fn) == IF dense_act_fn = "silu" THEN "swiglu" ELSE "geglu"

\* act_fn of package_into_nemo_file, "" where it raises
ActFn(dense_act_fn) ==
    IF dense_act_fn = "silu" THEN "swiglu"
    ELSE IF dense_act_fn = "gelu_new" THEN "geglu"
    ELSE ""

\* the entries package_into_nemo_file sets in base_cfg.encoder / .decoder
StackConfig(config, num_layers, act_fn) ==
    [num_layers |-> num_layers, hidden_size |-> config.d_model,
     ffn_hidden_size |-> config.d_ff, kv_channels |-> config.d_kv,
     num_attention_heads |-> config.num_heads, activation |-> act_fn,
     relative_attention_num_buckets |-> config.relative_attention_num_buckets]

InitMain ==
    /\ hf_weights = <<>>
    /\ nemo_weights = <<>>
    /\ i = 0
    /\ pc = "main"
    /\ err = NoError
    /\ state_dict_file = NotWritten
    /\ base_yaml_exists \in BOOLEAN
    /\ hf_model_config = None
    /\ base_cfg = None
    /\ model = None
    /\ nemo_file = NotWritten
    /\ MupIdle /\ G2PIdle /\ EvalIdle

\* a bug: the base configuration is not looked for before the conversion
CheckBaseConfigSkipped ==
    /\ pc = "main"
    /\ pc' = "convert_weights"
    /\ UNCHANGED <<hf_weights, nemo_weights, i, err, state_dict_file>>
    /\ UNCHANGED <<mainVars, mupVars, g2pVars, evalVars>>

\* __main__ after parse_args: the base configuration must exist
CheckBaseConfig ==
    /\ pc = "main"
    /\ IF base_yaml_exists
       THEN pc' = "convert_weights" /\ err' = err
       ELSE /\ pc' = "error"
            /\ err' = Raise("FileNotFoundError", "Base yaml config file {} does not exist.",
                            <<"base_yaml_config">>)
    /\ UNCHANGED <<hf_weights, nemo_weights, i, state_dict_file>>
    /\ UNCHANGED <<mainVars, mupVars, g2pVars, evalVars>>

\* convert_weights up to its loop: the source model and its state dict are read
LoadModel ==
    /\ pc = "convert_weights"
    /\ hf_weights' \in MainCheckpoints
    /\ \E a \in ActivationNames : hf_model_config' = ModelConfig(a)
    /\ nemo_weights' = <<>>
    /\ pc' = "loop"
    /\ UNCHANGED <<i, err, state_dict_file>>
    /\ UNCHANGED <<base_yaml_exists, base_cfg, model, nemo_file>>
    /\ UNCHANGED <<mupVars, g2pVars, evalVars>>

\* package_into_nemo_file up to open_dict: the trainer, the base
\* configuration and the translated hyperparameters
TranslateConfig ==
    /\ pc = "saved"
    /\ IF ActFn(hf_model_config.dense_act_fn) = ""
       THEN /\ pc' = "error"
            /\ err' = Raise("ValueError", "Unknown dense_act_fn: ",
                            <<hf_model_config.dense_act_fn>>)
            /\ base_cfg' = base_cfg
       ELSE /\ pc' = "package"
            /\ err' = err
            /\ base_cfg' =
                   [encoder |-> StackConfig(hf_model_config, hf_model_config.num_layers,
                                            ActFn(hf_model_config.dense_act_fn)),
                    decoder |-> StackConfig(hf_model_config,
                                            hf_model_config.num_decoder_layers,
                                            ActFn(hf_model_config.dense_act_fn))]
    /\ UNCHANGED <<hf_weights, nemo_weights, i, state_dict_file>>
    /\ UNCHANGED <<base_yaml_exists, hf_model_config, model, nemo_file>>
    /\ UNCHANGED <<mupVars, g2pVars, evalVars>>

\* MegatronT5Model(base_cfg, trainer), then load_state_dict(torch.load(state_dict_path))
BuildModel ==
    /\ pc = "package"
    /\ model' = [cfg |-> base_cfg, state_dict |-> state_dict_file.content]
    /\ pc' = "loaded"
    /\ UNCHANGED <<hf_weights, nemo_weights, i, err, state_dict_file>>
    /\ UNCHANGED <<base_yaml_exists, hf_model_config, base_cfg, nemo_file>>
    /\ UNCHANGED <<mupVars, g2pVars, evalVars>>

\* model.save_to(nemo_file_path)
SaveTo ==
    /\ pc = "loaded"
    /\ nemo_file' = [written |-> TRUE, content |-> model]
    /\ pc' = "done"
    /\ UNCHANGED <<hf_weights, nemo_weights, i, err, state_dict_file>>
    /\ UNCHANGED <<base_yaml_exists, hf_model_config, base_cfg, model>>
    /\ UNCHANGED <<mupVars, g2pVars, evalVars>>

NextMain ==
    \/ CheckBaseConfig
    \/ LoadModel
    \/ ProcessKey
    \/ SaveStateDict
    \/ TranslateConfig
    \/ BuildModel
    \/ SaveTo

SpecMain == InitMain /\ [][NextMain]_vars

(* ------------------------ rescale_linear_bias -------------------------- *)

\* the width multipliers linear.weight.infshape[1].width_mult() takes here:
\* squares, so that fanin_mult ** 0.5 is an integer
FaninMults == {1, 4, 9}

\* fanin_mult ** 0.5
Sqrt(m) == CHOOSE r \in 0..m : r * r = m

\* the linear layers as constructed: _has_rescaled_params unset or False,
\* the bias None or a vector
Layers ==
    [attr_set : BOOLEAN, has_rescaled_params : {FALSE},
     bias : {None} \cup { [data |-> <<b, 0 - b>>] : b \in {0, 1, 3} },
     fanin_mult : FaninMults]

\* a bug: the guard on _has_rescaled_params is missing
RescaleUnguarded(lin) ==
    IF lin.bias = None THEN [linear |-> lin, result |-> "None"]
    ELSE [linear |->
              [lin EXCEPT !.bias = [data |-> [j \in 1..Len(lin.bias.data) |->
                                                  lin.bias.data[j] * Sqrt(lin.fanin_mult)]],
                          !.attr_set = TRUE,
                          !.has_rescaled_params = TRUE],
          result |-> "None"]

\* a bug: _has_rescaled_params is set before the bias is looked at
RescaleFlagFirst(lin) ==
    IF lin.attr_set /\ lin.has_rescaled_params
    THEN [linear |-> lin, result |-> "RuntimeError"]
    ELSE IF lin.bias = None
    THEN [linear |-> [lin EXCEPT !.attr_set = TRUE, !.has_rescaled_params = TRUE],
          result |-> "None"]
    ELSE RescaleUnguarded(lin)

\* rescale_linear_bias(linear): the layer after the call and what the call
\* returned or raised
Rescale(lin) ==
    IF lin.attr_set /\ lin.has_rescaled_params
    THEN [linear |-> lin, result |-> "RuntimeError"]
    ELSE IF lin.bias = None
    THEN [linear |-> lin, result |-> "None"]
    ELSE [linear |->
              [lin EXCEPT !.bias = [data |-> [j \in 1..Len(lin.bias.data) |->
                                                  lin.bias.data[j] * Sqrt(lin.fanin_mult)]],
                          !.attr_set = TRUE,
                          !.has_rescaled_params = TRUE],
          result |-> "None"]

\* the state of the other programs while a layer is rescaled
ConvIdle ==
    /\ hf_weights = <<>>
    /\ nemo_weights = <<>>
    /\ i = 0
    /\ pc = "idle"
    /\ err = NoError
    /\ state_dict_file = NotWritten

MainIdle ==
    /\ base_yaml_exists = TRUE
    /\ hf_model_config = None
    /\ base_cfg = None
    /\ model = None
    /\ nemo_file = NotWritten

InitMup ==
    /\ linear \in Layers
    /\ linear0 = linear
    /\ calls = <<>>
    /\ ConvIdle /\ MainIdle /\ G2PIdle /\ EvalIdle

\* a call of rescale_linear_bias(linear)
RescaleLinearBias ==
    /\ Len(calls) < MaxCalls
    /\ linear' = Rescale(linear).linear
    /\ calls' = Append(calls, Rescale(linear).result)
    /\ UNCHANGED <<linear0, convVars, mainVars, g2pVars, evalVars>>

\* the caller's linear._has_rescaled_params = False, the bypass the error
\* message of rescale_linear_bias describes
ResetFlag ==
    /\ Len(calls) < MaxCalls
    /\ linear' = [linear EXCEPT !.attr_set = TRUE, !.has_rescaled_params = FALSE]
    /\ calls' = Append(calls, "reset")
    /\ UNCHANGED <<linear0, convVars, mainVars, g2pVars, evalVars>>

NextMup == RescaleLinearBias \/ ResetFlag

SpecMup == InitMup /\ [][NextMup]_vars

(* ---------------------------- drop_examples ---------------------------- *)

\* A text is a sequence of characters, a character a string of length one;
\* the three characters outside ASCII are written by their code points:
\* "U+201C" and "U+201D" the curly double quotes, "U+04C2" the unk token,
\* "U+00E9" a letter with an accent.

\* string.ascii_letters: lower case, then upper case
AsciiLowercase ==
    <<"a", "b", "c", "d", "e", "f", "g", "h", "i", "j", "k", "l", "m",
      "n", "o", "p", "q", "r", "s", "t", "u", "v", "w", "x", "y", "z">>

AsciiUppercase ==
    <<"A", "B", "C", "D", "E", "F", "G", "H", "I", "J", "K", "L", "M",
      "N", "O", "P", "Q", "R", "S", "T", "U", "V", "W", "X", "Y", "Z">>

AsciiLetters ==
    { AsciiLowercase[j] : j \in 1..Len(AsciiLowercase) }
        \cup { AsciiUppercase[j] : j \in 1..Len(AsciiUppercase) }

\* string.punctuation; "U+0060" is the grave accent, which a string of this
\* language cannot hold
Punctuation ==
    {"!", "\"", "#", "$", "%", "&", "'", "(", ")", "*", "+", ",", "-", ".",
     "/", ":", ";", "<", "=", ">", "?", "@", "[", "\\", "]", "^", "_", "U+0060",
     "{", "|", "}", "~"}

\* process_text(text): both curly double quotes become the straight one
process_text(text) ==
    [j \in 1..Len(text) |->
        IF text[j] \in {"U+201C", "U+201D"} THEN "\"" ELSE text[j]]

\* is_valid(text): no symbol outside unk_token + string.ascii_letters + " "
\* + string.punctuation
is_valid(text) ==
    { text[j] : j \in 1..Len(text) }
        \ ({"U+04C2"} \cup AsciiLetters \cup {" "} \cup Punctuation) = {}

\* remove_punctuation(text) of prepare_data: every punctuation mark becomes
\* a space
remove_punctuation(text) ==
    [j \in 1..Len(text) |-> IF text[j] \in Punctuation THEN " " ELSE text[j]]

\* str.lower()
lower(text) ==
    [j \in 1..Len(text) |->
        IF \E n \in 1..Len(AsciiUppercase) : AsciiUppercase[n] = text[j]
        THEN AsciiLowercase[CHOOSE n \in 1..Len(AsciiUppercase) :
                                AsciiUppercase[n] = text[j]]
        ELSE text[j]]

\* str.split(): the maximal runs of characters other than spaces, in order
RECURSIVE split(_)
split(text) ==
    IF text = <<>> THEN <<>>
    ELSE IF Head(text) = " " THEN split(Tail(text))
    ELSE LET stop == IF \E j \in 1..Len(text) : text[j] = " "
                     THEN (CHOOSE j \in 1..Len(text) :
                              /\ text[j] = " "
                              /\ \A n \in 1..(j - 1) : text[n] # " ") - 1
                     ELSE Len(text)
         IN  <<SubSeq(text, 1, stop)>> \o split(SubSeq(text, stop + 1, Len(text)))

\* the loop over words: it ends at its first pass, so dev_test_words_present
\* is decided by the first word alone
dev_test_words_present(words, exclude) ==
    /\ words # <<>>
    /\ exclude # None
    /\ \E n \in 1..Len(exclude.list) : exclude.list[n] = words[1]

\* a bug: a line with an invalid symbol is skipped without being counted
DropExamplesLineUncounted(line, exclude, out, dropped) ==
    LET text == process_text(line.text_graphemes)
    IN  IF ~is_valid(text)
        THEN [f_out |-> out, num_dropped |-> dropped]
        ELSE IF ~dev_test_words_present(split(lower(remove_punctuation(text))), exclude)
        THEN [f_out |-> Append(out, [text_graphemes |-> line.text_graphemes,
                                     text_grapheme |-> text,
                                     text |-> process_text(line.text)]),
              num_dropped |-> dropped]
        ELSE [f_out |-> out, num_dropped |-> dropped + 1]

\* one pass of the loop of drop_examples over the lines of the manifest: the
\* output manifest and num_dropped after it
DropExamplesLine(line, exclude, out, dropped) ==
    LET text == process_text(line.text_graphemes)
    IN  IF ~is_valid(text)
        THEN [f_out |-> out, num_dropped |-> dropped + 1]
        ELSE IF ~dev_test_words_present(split(lower(remove_punctuation(text))), exclude)
        THEN [f_out |-> Append(out, [text_graphemes |-> line.text_graphemes,
                                     text_grapheme |-> text,
                                     text |-> process_text(line.text)]),
              num_dropped |-> dropped]
        ELSE [f_out |-> out, num_dropped |-> dropped + 1]

\* the lines of the manifests: text_graphemes and text
ManifestLines ==
    { [text_graphemes |-> <<"a", " ", "b">>, text |-> <<"x">>],
      [text_graphemes |-> <<"b", " ", "a">>, text |-> <<"y">>],
      [text_graphemes |-> <<"U+201C", "B", "U+201D", " ", "a", ".">>,
       text |-> <<"U+201C", "x", "U+201D">>],
      [text_graphemes |-> <<"U+00E9", " ", "a">>, text |-> <<"x">>],
      [text_graphemes |-> <<"U+04C2", " ", "a">>, text |-> <<"x">>],
      [text_graphemes |-> <<>>, text |-> <<>>],
      [text_graphemes |-> <<"a">>, text |-> <<"z">>] }

\* the values of graphemes_to_exclude: None or a list of lower-case words
ExcludeLists ==
    { None,
      [list |-> <<>>],
      [list |-> << <<"b">> >>],
      [list |-> << <<"a">>, <<"b">> >>] }

InitG2P ==
    /\ manifest \in UNION { [1..n -> ManifestLines] : n \in 0..MaxLines }
    /\ graphemes_to_exclude \in ExcludeLists
    /\ line_no = 0
    /\ f_out = <<>>
    /\ num_dropped = 0
    /\ ConvIdle /\ MainIdle /\ MupIdle /\ EvalIdle

\* the next line of the manifest is read and kept or dropped
ProcessLine ==
    /\ line_no < Len(manifest)
    /\ LET r == DropExamplesLine(manifest[line_no + 1], graphemes_to_exclude,
                                 f_out, num_dropped)
       IN  /\ f_out' = r.f_out
           /\ num_dropped' = r.num_dropped
    /\ line_no' = line_no + 1
    /\ UNCHANGED <<manifest, graphemes_to_exclude, convVars, mainVars, mupVars, evalVars>>

NextG2P == ProcessLine

SpecG2P == InitG2P /\ [][NextG2P]_vars

(* -------------------- megatron_gpt_prefix_tuning_eval ------------------ *)

\* the configurations main is run with; an absent file is None
Configs ==
    [devices : 1..MaxDevices,
     num_nodes : 1..MaxDevices,
     tensor_model_parallel_size : 1..MaxDevices,
     pipeline_model_parallel_size : 1..MaxDevices,
     prefix_tuned_model_file : {None, [path |-> "prefix.nemo"]},
     gpt_model_file : {"gpt.nemo"},
     output_file : {None, [path |-> "out.txt"]}]

\* what model.generate may answer: a sentence is a sequence of characters
Responses ==
    { [sentences |-> <<>>],
      [sentences |-> << <<"a", "\n", "b">> >>],
      [sentences |-> << <<"a">>, <<"b", "\n">> >>] }

\* ' '.join(sentence.split('\n'))
JoinLines(sentence) ==
    [j \in 1..Len(sentence) |-> IF sentence[j] = "\n" THEN " " ELSE sentence[j]]

\* what the loop over response["sentences"] writes to the output file
RECURSIVE WrittenSentences(_)
WrittenSentences(sentences) ==
    IF sentences = <<>> THEN <<>>
    ELSE JoinLines(Head(sentences)) \o <<"\n">> \o WrittenSentences(Tail(sentences))

InitEval ==
    /\ cfg \in Configs
    /\ eval_pc = "main"
    /\ eval_err = NoError
    /\ eval_model = None
    /\ response = None
    /\ output = NotWritten
    /\ ConvIdle /\ MainIdle /\ MupIdle /\ G2PIdle

\* a bug: the assertion on the parallel sizes is not evaluated
CheckParallelismStripped ==
    /\ eval_pc = "main"
    /\ eval_pc' = "restore"
    /\ UNCHANGED <<cfg, eval_err, eval_model, response, output>>
    /\ UNCHANGED <<convVars, mainVars, mupVars, g2pVars>>

\* the trainer is built and the parallel sizes are asserted
CheckParallelism ==
    /\ eval_pc = "main"
    /\ IF cfg.devices * cfg.num_nodes
              = cfg.tensor_model_parallel_size * cfg.pipeline_model_parallel_size
       THEN /\ eval_pc' = "restore"
            /\ UNCHANGED eval_err
       ELSE /\ eval_pc' = "error"
            /\ eval_err' = Raise("AssertionError",
                   "devices * num_nodes should equal tensor_model_parallel_size * pipeline_model_parallel_size",
                   <<>>)
    /\ UNCHANGED <<cfg, eval_model, response, output>>
    /\ UNCHANGED <<convVars, mainVars, mupVars, g2pVars>>

\* the prefix tuned model is restored over the frozen GPT model of
\* gpt_model_file, or the run ends for want of it
RestoreModel ==
    /\ eval_pc = "restore"
    /\ IF cfg.prefix_tuned_model_file # None
       THEN /\ eval_model' = [restore_path |-> cfg.prefix_tuned_model_file.path,
                              language_model_path |-> cfg.gpt_model_file,
                              frozen |-> FALSE,
                              activations_checkpoint_method |-> [method |-> "uniform"]]
            /\ eval_pc' = "freeze"
            /\ UNCHANGED eval_err
       ELSE /\ eval_pc' = "error"
            /\ eval_err' = Raise("NotImplementedError",
                   "Only inference from prefix tuned model is supported, for general inerference from a Megatron GPT model, refer to ../megatron_gpt_eval.py",
                   <<>>)
            /\ UNCHANGED eval_model
    /\ UNCHANGED <<cfg, response, output>>
    /\ UNCHANGED <<convVars, mainVars, mupVars, g2pVars>>

\* model.freeze() and activations_checkpoint_method = None
FreezeModel ==
    /\ eval_pc = "freeze"
    /\ eval_model' = [eval_model EXCEPT !.frozen = TRUE,
                                        !.activations_checkpoint_method = None]
    /\ eval_pc' = "generate"
    /\ UNCHANGED <<cfg, eval_err, response, output>>
    /\ UNCHANGED <<convVars, mainVars, mupVars, g2pVars>>

\* model.generate(...)
Generate ==
    /\ eval_pc = "generate"
    /\ response' \in Responses
    /\ eval_pc' = "output"
    /\ UNCHANGED <<cfg, eval_err, eval_model, output>>
    /\ UNCHANGED <<convVars, mainVars, mupVars, g2pVars>>

\* the sentences are written to output_file, or the response is printed
WriteOutput ==
    /\ eval_pc = "output"
    /\ IF cfg.output_file # None
       THEN output' = [written |-> TRUE, content |-> WrittenSentences(response.sentences)]
       ELSE UNCHANGED output
    /\ eval_pc' = "done"
    /\ UNCHANGED <<cfg, eval_err, eval_model, response>>
    /\ UNCHANGED <<convVars, mainVars, mupVars, g2pVars>>

NextEval ==
    CheckParallelism \/ RestoreModel \/ FreezeModel \/ Generate \/ WriteOutput

SpecEval == InitEval /\ [][NextEval]_vars

RECURSIVE PassFrom(_, _, _)
\* the whole loop from position n on: the outcome of its last iteration
PassFrom(hf, nw, n) ==
    IF n = Len(hf) THEN Outcome(hf, nw, NoError)
    ELSE LET r == LoopBody(hf, nw, hf[n + 1].k, hf[n + 1].v)
         IN  IF r.err # NoError THEN r ELSE PassFrom(r.hf, r.nw, n + 1)

\* the pass over a source mapping, from an empty target
Pass(hf) == PassFrom(hf, <<>>, 0)

(* ============================== claims ================================ *)

\* the patterns of the handling rules, as the specification lists them
RulePatterns ==
    { <<"SelfAttention", "q", "weight">>, <<"SelfAttention", "k", "weight">>,
      <<"SelfAttention", "v", "weight">>, <<"SelfAttention", "o", "weight">>,
      <<"EncDecAttention", "q", "weight">>, <<"EncDecAttention", "k", "weight">>,
      <<"EncDecAttention", "v", "weight">>, <<"EncDecAttention", "o", "weight">>,
      <<"DenseReluDense", "wi_0", "weight">>, <<"DenseReluDense", "wi_1", "weight">>,
      <<"DenseReluDense", "wo", "weight">> }

RuleNames ==
    { <<"shared", "weight">>, <<"lm_head", "weight">>,
      <<"encoder", "embed_tokens", "weight">>, <<"decoder", "embed_tokens", "weight">>,
      <<"encoder", "block", "0", "layer", "0", "SelfAttention",
        "relative_attention_bias", "weight">>,
      <<"decoder", "block", "0", "layer", "0", "SelfAttention",
        "relative_attention_bias", "weight">> }

\* k is matched by some handling rule
Matched(k) ==
    \/ k \in RuleNames
    \/ \E pat \in RulePatterns : Contains(k, pat)
    \/ \E j \in 1..Len(k) : k[j] \in {"layer_norm", "final_layer_norm"}

\* the key at position j of the source is still to be processed, and the
\* intermediate state dict has not been written
NeverPassed(j) == i < j /\ pc # "saved" /\ state_dict_file.written = FALSE

\* C1: a source checkpoint holding a key that no rule matches is never
\* remapped to the end: the loop does not get past that key, wherever it
\* stands, and the intermediate state dict is not written.
C1_UnknownKeyAborts ==
    \A j \in 1..Len(hf_weights) : ~Matched(hf_weights[j].k) => NeverPassed(j)

\* C1 witness: the run ended on an unmatched key after another key was mapped
C1_Witness ==
    /\ pc = "error" /\ i >= 1 /\ nemo_weights # <<>>
    /\ ~Matched(hf_weights[i + 1].k)
    /\ state_dict_file.written = FALSE

\* C2 (as claimed): whenever the run aborts on a key it cannot classify or
\* parse (any abort but a missing sibling), the error message contains the
\* full name of the key being processed.
C2_ErrorNamesKey ==
    (pc = "error" /\ err.type # "KeyError") => Contains(err.arg, hf_weights[i + 1].k)

\* f'enc_dec_model.enc_dec_model.{role}.model.layers.{b}.<leaf>' of the target
TargetLayer(role, b, leaf) ==
    <<"enc_dec_model", "enc_dec_model", role, "model", "layers", ToString(b)>> \o leaf

\* the 7 target keys of encoder block b
ExpectedEncoderBlock(b) ==
    { TargetLayer("encoder", b, leaf) :
        leaf \in { <<"self_attention", "query_key_value", "weight">>,
                   <<"self_attention", "dense", "weight">>,
                   <<"mlp", "dense_h_to_4h", "weight">>,
                   <<"mlp", "dense_h_to_4h_2", "weight">>,
                   <<"mlp", "dense_4h_to_h", "weight">>,
                   <<"input_layernorm", "weight">>,
                   <<"post_attention_layernorm", "weight">> } }

\* the 11 target keys of decoder block b
ExpectedDecoderBlock(b) ==
    { TargetLayer("decoder", b, leaf) :
        leaf \in { <<"self_attention", "query_key_value", "weight">>,
                   <<"self_attention", "dense", "weight">>,
                   <<"inter_attention", "query", "weight">>,
                   <<"inter_attention", "key_value", "weight">>,
                   <<"inter_attention", "dense", "weight">>,
                   <<"mlp", "dense_h_to_4h", "weight">>,
                   <<"mlp", "dense_h_to_4h_2", "weight">>,
                   <<"mlp", "dense_4h_to_h", "weight">>,
                   <<"input_layernorm", "weight">>,
                   <<"post_attention_layernorm", "weight">>,
                   <<"post_inter_attention_layernorm", "weight">> } }

\* the 7 target keys that belong to no block
ExpectedGlobal ==
    { <<"enc_dec_model", "tokens_head", "weight">>,
      <<"enc_dec_model", "decoder_embedding", "word_embeddings", "weight">>,
      <<"enc_dec_model", "encoder_embedding", "word_embeddings", "weight">>,
      <<"enc_dec_model", "encoder_relative_position_embedding",
        "relative_position_embedding", "weight">>,
      <<"enc_dec_model", "decoder_relative_position_embedding",
        "relative_position_embedding", "weight">>,
      <<"enc_dec_model", "enc_dec_model", "encoder", "model", "final_layernorm", "weight">>,
      <<"enc_dec_model", "enc_dec_model", "decoder", "model", "final_layernorm", "weight">> }

ExpectedTargetKeys(E, D) ==
    ExpectedGlobal
        \cup UNION { ExpectedEncoderBlock(b) : b \in 0..(E - 1) }
        \cup UNION { ExpectedDecoderBlock(b) : b \in 0..(D - 1) }

\* the source is the well-formed checkpoint of E encoder and D decoder blocks
IsWellFormed(E, D) ==
    LET keys == WellFormedKeys(E, D)
    IN  KeySet(hf_weights) = { keys[j] : j \in 1..Len(keys) }

\* C3: a well-formed checkpoint of E >= 1 encoder and D >= 1 decoder blocks
\* has 9E + 14D + 8 keys, its pass ends without error, and the state dict
\* written holds exactly the expected target keys, 7E + 11D + 7 of them.
C3_ExactTargetKeySet ==
    \A E, D \in 1..MaxBlocks :
        IsWellFormed(E, D) =>
            /\ Len(hf_weights) = 9 * E + 14 * D + 8
            /\ pc # "error"
            /\ pc = "saved" =>
                /\ KeySet(state_dict_file.content) = ExpectedTargetKeys(E, D)
                /\ Len(state_dict_file.content) = 7 * E + 11 * D + 7

\* C3 witness: the state dict of a checkpoint with two encoder blocks and one
\* decoder block has been written
C3_Witness ==
    /\ IsWellFormed(2, 1) /\ pc = "saved"
    /\ Len(state_dict_file.content) = 32

\* the key that differs from k only in the projection named after `attn`
Sibling(k, attn, proj) ==
    [j \in 1..Len(k) |-> IF j > 1 /\ k[j - 1] = attn THEN proj ELSE k[j]]

\* the integer at dot-position 2 of a key the pass has parsed
BlockOf(k) == IntOf(k[3])

\* the key at position j is the only source key of its rule for its target:
\* no other key with this pattern has the same block (and, when the target
\* role is the root module, the same root)
OnlyLead(j, pat, byRoot) ==
    \A j2 \in 1..Len(hf_weights) :
        LET k == hf_weights[j].k
            k2 == hf_weights[j2].k
        IN  (j2 # j /\ Contains(k2, pat) /\ Len(k2) >= 3 /\ IsIntLiteral(k2[3]))
                => \/ BlockOf(k2) # BlockOf(k)
                   \/ byRoot /\ k2[1] # k[1]

\* rows a+1..b of tensor t
Rows(t, a, b) == SubSeq(t, a + 1, b)

\* C4: once the pass has processed a key containing 'SelfAttention.q.weight'
\* (the only one of its role and block), the target entry
\* '<role>.model.layers.<block>.self_attention.query_key_value.weight' has 3H
\* rows: rows [0,H) are that key's tensor (query), rows [H,2H) the tensor of
\* its k sibling and rows [2H,3H) the tensor of its v sibling.
C4_QueryKeyValueOrder ==
    \A j \in 1..i :
        LET k == hf_weights[j].k
            H == TensorRows
            target == TargetLayer(k[1], BlockOf(k),
                                  <<"self_attention", "query_key_value", "weight">>)
        IN  (Contains(k, <<"SelfAttention", "q", "weight">>)
                /\ OnlyLead(j, <<"SelfAttention", "q", "weight">>, TRUE)) =>
                /\ Has(nemo_weights, target)
                /\ Len(Get(nemo_weights, target)) = 3 * H
                /\ Rows(Get(nemo_weights, target), 0, H) = hf_weights[j].v
                /\ Rows(Get(nemo_weights, target), H, 2 * H)
                       = Get(hf_weights, Sibling(k, "SelfAttention", "k"))
                /\ Rows(Get(nemo_weights, target), 2 * H, 3 * H)
                       = Get(hf_weights, Sibling(k, "SelfAttention", "v"))

\* C4 witness: the q key of decoder block 1 has been processed and fused
C4_Witness ==
    \E j \in 1..i :
        /\ hf_weights[j].k
               = <<"decoder", "block", "1", "layer", "0", "SelfAttention", "q", "weight">>
        /\ Has(nemo_weights,
               TargetLayer("decoder", 1, <<"self_attention", "query_key_value", "weight">>))

\* C5: once the pass has processed the EncDecAttention k key of a block (the
\* only one for that block), the decoder's 'inter_attention.key_value.weight'
\* of that block has 2H rows, the key tensor in rows [0,H) and the v sibling's
\* tensor in rows [H,2H); a processed EncDecAttention q key is written
\* unchanged to 'inter_attention.query.weight' and a processed o key unchanged
\* to 'inter_attention.dense.weight' of the decoder.
C5_CrossAttentionKeyValue ==
    \A j \in 1..i :
        LET k == hf_weights[j].k
            H == TensorRows
            target(leaf) == TargetLayer("decoder", BlockOf(k), <<"inter_attention">> \o leaf)
            lead(proj) ==
                /\ Contains(k, <<"EncDecAttention", proj, "weight">>)
                /\ OnlyLead(j, <<"EncDecAttention", proj, "weight">>, FALSE)
        IN  /\ lead("k") =>
                /\ Has(nemo_weights, target(<<"key_value", "weight">>))
                /\ Len(Get(nemo_weights, target(<<"key_value", "weight">>))) = 2 * H
                /\ Rows(Get(nemo_weights, target(<<"key_value", "weight">>)), 0, H)
                       = hf_weights[j].v
                /\ Rows(Get(nemo_weights, target(<<"key_value", "weight">>)), H, 2 * H)
                       = Get(hf_weights, Sibling(k, "EncDecAttention", "v"))
            /\ lead("q") =>
                /\ Has(nemo_weights, target(<<"query", "weight">>))
                /\ Get(nemo_weights, target(<<"query", "weight">>)) = hf_weights[j].v
            /\ lead("o") =>
                /\ Has(nemo_weights, target(<<"dense", "weight">>))
                /\ Get(nemo_weights, target(<<"dense", "weight">>)) = hf_weights[j].v

\* C5 witness: all four cross-attention keys of decoder block 1 are processed
C5_Witness ==
    /\ \A proj \in {"q", "k", "v", "o"} :
           \E j \in 1..i :
               hf_weights[j].k
                   = <<"decoder", "block", "1", "layer", "1", "EncDecAttention", proj, "weight">>
    /\ Has(nemo_weights, TargetLayer("decoder", 1, <<"inter_attention", "key_value", "weight">>))

\* the key at position j leads a fusion and a sibling it needs is absent
LeadWithoutSibling(j) ==
    LET k == hf_weights[j].k IN
    \/ /\ Contains(k, <<"SelfAttention", "q", "weight">>)
       /\ \/ ~Has(hf_weights, Sibling(k, "SelfAttention", "k"))
          \/ ~Has(hf_weights, Sibling(k, "SelfAttention", "v"))
    \/ /\ Contains(k, <<"EncDecAttention", "k", "weight">>)
       /\ ~Has(hf_weights, Sibling(k, "EncDecAttention", "v"))

\* C6: a fusion lead key whose sibling is absent is never passed by the loop
\* and the intermediate state dict is never written; and no fused entry of the
\* target is ever partial: a query_key_value entry has 3H rows and a key_value
\* entry 2H rows.
C6_MissingSiblingAborts ==
    /\ \A j \in 1..Len(hf_weights) : LeadWithoutSibling(j) => NeverPassed(j)
    /\ \A j \in 1..Len(nemo_weights) :
           LET leaf == SubSeq(nemo_weights[j].k, Len(nemo_weights[j].k) - 1,
                              Len(nemo_weights[j].k))
           IN  /\ leaf = <<"query_key_value", "weight">>
                      => Len(nemo_weights[j].v) = 3 * TensorRows
               /\ leaf = <<"key_value", "weight">>
                      => Len(nemo_weights[j].v) = 2 * TensorRows

\* C6 witness: the run ended with KeyError on a q key whose k sibling is
\* present and whose v sibling is absent
C6_Witness ==
    /\ pc = "error" /\ err.type = "KeyError"
    /\ LeadWithoutSibling(i + 1)
    /\ Has(hf_weights, Sibling(hf_weights[i + 1].k, "SelfAttention", "k"))
    /\ state_dict_file.written = FALSE

\* tensor t is in the target, unchanged or as a contiguous run of rows
InTarget(t) ==
    \E j \in 1..Len(nemo_weights) :
        \E a \in 0..(Len(nemo_weights[j].v) - Len(t)) :
            Rows(nemo_weights[j].v, a, a + Len(t)) = t

\* C7 (as claimed): when the pass completes without error, every source
\* tensor other than 'shared.weight' is in the target mapping, unchanged or
\* as a contiguous row-slice of a fused tensor.
C7_NoSourceTensorLost ==
    pc = "saved" =>
        \A j \in 1..Len(hf_weights) :
            hf_weights[j].k # <<"shared", "weight">> => InTarget(hf_weights[j].v)

\* the iteration orders of the source that are compared with the run: every
\* order of a small mapping, the reverse order of a larger one
OtherIterationOrders ==
    IF Len(hf_weights) <= MaxKeys
    THEN { [j \in 1..Len(hf_weights) |-> hf_weights[f[j]]] :
               f \in Permutations(1..Len(hf_weights)) }
    ELSE { Reverse(hf_weights) }

\* C8 (as claimed): the outcome depends only on the contents of the source:
\* the pass over any other iteration order of the same items aborts iff this
\* run aborted, and otherwise yields the same target keys with the same
\* tensors.
C8_OrderIndependent ==
    pc \in {"saved", "error"} =>
        \A other \in OtherIterationOrders :
            /\ (Pass(other).err # NoError) <=> (pc = "error")
            /\ pc = "saved" => AsMap(Pass(other).nw) = AsMap(nemo_weights)

\* C9: no step of the pass changes the source mapping, whether the step maps
\* a key or raises; the target mapping only gains keys.
C9_SourceNeverMutated ==
    [][/\ hf_weights' = hf_weights
       /\ KeySet(nemo_weights) \subseteq KeySet(nemo_weights')
       /\ Len(nemo_weights) <= Len(nemo_weights')]_vars

\* C9 witness: a pass that fused a self-attention projection from its
\* siblings has ended, and the source still holds the siblings
C9_Witness ==
    /\ pc = "saved"
    /\ \E j \in 1..Len(hf_weights) :
           /\ Contains(hf_weights[j].k, <<"SelfAttention", "q", "weight">>)
           /\ Has(hf_weights, Sibling(hf_weights[j].k, "SelfAttention", "k"))
           /\ Has(hf_weights, Sibling(hf_weights[j].k, "SelfAttention", "v"))
    /\ nemo_weights # <<>>

\* the layer norm of sub-layer l of a block of `root`, <<>> for any other
\* combination
ClaimedLayernorm(root, l) ==
    IF root \in {"encoder", "decoder"} /\ l = "0" THEN <<"input_layernorm", "weight">>
    ELSE IF root \in {"encoder", "decoder"} /\ l = "1"
         THEN <<"post_attention_layernorm", "weight">>
    ELSE IF root = "decoder" /\ l = "2" THEN <<"post_inter_attention_layernorm", "weight">>
    ELSE <<>>

\* C10 (as claimed): a processed key containing 'layer_norm' and 'final' is
\* written to the final_layernorm of its own root module; any other
\* processed layer_norm key is written to the layer norm that its root and
\* sub-layer index select in layer <block>; a layer_norm key of any other
\* combination is never passed by the loop.
C10_LayerNormClassification ==
    \A j \in 1..Len(hf_weights) :
        LET k == hf_weights[j].k
            leaf == IF Len(k) >= 5 /\ IsIntLiteral(k[3])
                    THEN ClaimedLayernorm(k[1], k[5]) ELSE <<>>
        IN  (\E n \in 1..Len(k) : k[n] \in {"layer_norm", "final_layer_norm"}) =>
                IF \E n \in 1..Len(k) : k[n] = "final_layer_norm"
                THEN j <= i =>
                        Has(nemo_weights,
                            <<"enc_dec_model", "enc_dec_model", k[1], "model",
                              "final_layernorm", "weight">>)
                ELSE IF leaf # <<>>
                THEN j <= i =>
                        /\ Has(nemo_weights, TargetLayer(k[1], BlockOf(k), leaf))
                        /\ Get(nemo_weights, TargetLayer(k[1], BlockOf(k), leaf))
                               = hf_weights[j].v
                ELSE NeverPassed(j)

(* ----------------- claims about the whole conversion tool ------------- *)

\* C11: 'silu' is translated to 'swiglu' and 'gelu_new' to 'geglu', the same
\* value for encoder.activation and decoder.activation; with any other
\* identifier no configuration is derived, the run ends after the state dict
\* with a ValueError naming the identifier, no model is constructed or loaded
\* and the final archive is never written.
C11_ActivationTranslation ==
    hf_model_config # None =>
        LET a == hf_model_config.dense_act_fn IN
        /\ pc \in {"package", "loaded", "done"} => base_cfg # None
        /\ base_cfg # None =>
               /\ base_cfg.encoder.activation = base_cfg.decoder.activation
               /\ a = "silu" => base_cfg.encoder.activation = "swiglu"
               /\ a = "gelu_new" => base_cfg.encoder.activation = "geglu"
        /\ a \notin {"silu", "gelu_new"} =>
               /\ base_cfg = None /\ model = None /\ nemo_file.written = FALSE
               /\ pc \notin {"package", "loaded", "done"}
               /\ (pc = "error" /\ state_dict_file.written) =>
                      /\ err.type = "ValueError"
                      /\ Contains(err.arg, <<a>>)

\* C11 witness: the run ended on the identifier 'relu' after the state dict
\* was written
C11_Witness ==
    /\ pc = "error" /\ state_dict_file.written
    /\ hf_model_config # None /\ hf_model_config.dense_act_fn = "relu"
    /\ err.arg = <<"relu">>
    /\ nemo_file.written = FALSE

\* C12: when the base configuration does not exist, the run ends at once
\* with FileNotFoundError: no source model is loaded, and neither the
\* intermediate state dict nor the final archive is written.
C12_MissingBaseConfig ==
    ~base_yaml_exists =>
        /\ pc \in {"main", "error"}
        /\ pc = "error" => err.type = "FileNotFoundError"
        /\ hf_weights = <<>> /\ hf_model_config = None
        /\ state_dict_file.written = FALSE /\ nemo_file.written = FALSE

\* C12 witness: the run has ended with FileNotFoundError
C12_Witness ==
    ~base_yaml_exists /\ pc = "error" /\ err.type = "FileNotFoundError"

\* what holds of the artifacts in every state of a run
ArtifactOrder ==
    /\ state_dict_file.written =>
           /\ hf_model_config # None
           /\ i = Len(hf_weights)
           /\ state_dict_file.content = nemo_weights
    /\ model # None =>
           /\ state_dict_file.written
           /\ model.state_dict = state_dict_file.content
    /\ nemo_file.written => model # None /\ nemo_file.content = model
    /\ pc = "done" => nemo_file.written

\* what holds of every step of a run: nothing is done a second time
ArtifactsOnce ==
    /\ hf_model_config # None =>
           hf_weights' = hf_weights /\ hf_model_config' = hf_model_config
    /\ i' \in {i, i + 1}
    /\ state_dict_file.written =>
           state_dict_file' = state_dict_file /\ nemo_weights' = nemo_weights
    /\ model # None => model' = model
    /\ nemo_file.written => nemo_file' = nemo_file

\* C13: the source is read once, the pass goes once over the keys, the
\* intermediate state dict is written only when no key is left and once, it
\* is what the model then loads, and the final archive is written after
\* that, once; a run that reaches its end has written the archive.
C13_StepOrder == [](ArtifactOrder) /\ [][ArtifactsOnce]_vars

\* C13 witness: a run over a well-formed checkpoint has written the archive
C13_Witness ==
    /\ pc = "done" /\ nemo_file.written
    /\ IsWellFormed(1, 1)
    /\ nemo_file.content.state_dict = nemo_weights

(* -------------------- claims about rescale_linear_bias ----------------- *)

\* nobody has reset _has_rescaled_params since the layer was constructed
NoReset == \A n \in 1..Len(calls) : calls[n] # "reset"

\* C14: for a layer with a bias, as long as nobody resets the flag, the
\* first call returns with every element of the bias multiplied by
\* fanin_mult ** 0.5 and the flag set; every later call raises RuntimeError,
\* and bias and flag stay as the first call left them.
C14_RescaledExactlyOnce ==
    (linear0 # None /\ linear0.bias # None /\ NoReset) =>
        IF calls = <<>> THEN linear = linear0
        ELSE /\ calls[1] = "None"
             /\ \A n \in 2..Len(calls) : calls[n] = "RuntimeError"
             /\ linear.attr_set /\ linear.has_rescaled_params
             /\ Len(linear.bias.data) = Len(linear0.bias.data)
             /\ \A j \in 1..Len(linear0.bias.data) :
                    linear.bias.data[j] * linear.bias.data[j]
                        = linear0.bias.data[j] * linear0.bias.data[j] * linear0.fanin_mult
             /\ \A j \in 1..Len(linear0.bias.data) :
                    linear.bias.data[j] * linear0.bias.data[j] >= 0

\* C14 witness: a second call on a layer with a non-zero bias and a width
\* multiplier of 4 has raised RuntimeError
C14_Witness ==
    /\ linear0 # None /\ linear0.bias # None /\ NoReset
    /\ linear0.fanin_mult = 4 /\ linear0.bias.data[1] = 3
    /\ Len(calls) >= 2 /\ calls[2] = "RuntimeError"
    /\ linear.bias.data[1] = 6

\* C19: on a layer without bias whose flag is unset or False, as long as
\* nobody resets the flag, every call returns without raising and the layer,
\* its flag included, is as it was constructed.
C19_NoBiasNoEffect ==
    (linear0 # None /\ linear0.bias = None /\ NoReset) =>
        /\ linear = linear0
        /\ \A n \in 1..Len(calls) : calls[n] = "None"

\* C19 witness: three calls on a layer without bias and with the flag unset
C19_Witness ==
    /\ linear0 # None /\ linear0.bias = None /\ ~linear0.attr_set
    /\ Len(calls) = 3 /\ NoReset

(* ----------------------- claims about drop_examples -------------------- *)

\* the words of a text of the manifest: quote normalisation, punctuation
\* removal, lower-casing, whitespace splitting
WordsOf(text_graphemes) ==
    split(lower(remove_punctuation(process_text(text_graphemes))))

\* C15: no word of the text_graphemes of a written line, whatever its
\* position in the sentence, is a member of graphemes_to_exclude.
C15_NoExcludedGraphemeWritten ==
    graphemes_to_exclude # None =>
        \A n \in 1..Len(f_out) :
            LET words == WordsOf(f_out[n].text_graphemes)
            IN  \A m \in 1..Len(words) :
                    \A e \in 1..Len(graphemes_to_exclude.list) :
                        graphemes_to_exclude.list[e] # words[m]

\* the n-th smallest member of a set of numbers
Nth(S, n) == CHOOSE x \in S : Cardinality({ y \in S : y < x }) = n - 1

\* C20: written lines plus dropped lines are the lines read; the written
\* lines are lines of the manifest in their input order; no written line has
\* a symbol outside the unk token, the ASCII letters, the space and the
\* ASCII punctuation in its text_graphemes after quote normalisation.
C20_EveryLineAccountedOnce ==
    /\ Len(f_out) + num_dropped = line_no
    /\ \E S \in SUBSET (1..line_no) :
           /\ Cardinality(S) = Len(f_out)
           /\ \A n \in 1..Len(f_out) :
                  /\ f_out[n].text_graphemes = manifest[Nth(S, n)].text_graphemes
                  /\ f_out[n].text = process_text(manifest[Nth(S, n)].text)
    /\ \A n \in 1..Len(f_out) :
           \A j \in 1..Len(f_out[n].text_graphemes) :
               f_out[n].text_graphemes[j]
                   \in {"U+201C", "U+201D", "U+04C2", " "} \cup AsciiLetters \cup Punctuation

\* C20 witness: a manifest read to its end, the first line dropped for its
\* accented letter, the second one written
C20_Witness ==
    /\ Len(manifest) = 2 /\ line_no = 2
    /\ manifest[1].text_graphemes = <<"U+00E9", " ", "a">>
    /\ Len(f_out) = 1 /\ num_dropped = 1
    /\ f_out[1].text_graphemes = manifest[2].text_graphemes

(* --------------- claims about megatron_gpt_prefix_tuning_eval ---------- *)

\* nothing of the inference has happened: no model restored or frozen, no
\* call of model.generate, no output file opened
NoInference ==
    /\ eval_model = None
    /\ response = None
    /\ output = NotWritten

\* C16: with devices * num_nodes different from tensor_model_parallel_size *
\* pipeline_model_parallel_size main ends with an AssertionError; with the
\* sizes right and prefix_tuned_model_file absent it ends with
\* NotImplementedError; with either of the two wrong, no model is ever
\* restored or frozen, model.generate is never called and no output file is
\* opened.
C16_InvalidConfigRefused ==
    cfg # None =>
        LET sizes_differ ==
                cfg.devices * cfg.num_nodes
                    # cfg.tensor_model_parallel_size * cfg.pipeline_model_parallel_size
            file_absent == cfg.prefix_tuned_model_file = None
        IN  /\ sizes_differ =>
                /\ eval_pc \in {"main", "error"}
                /\ eval_pc = "error" => eval_err.type = "AssertionError"
            /\ (~sizes_differ /\ file_absent) =>
                /\ eval_pc \in {"main", "restore", "error"}
                /\ eval_pc = "error" => eval_err.type = "NotImplementedError"
            /\ (sizes_differ \/ file_absent) => NoInference
            /\ eval_pc = "error" => (sizes_differ \/ file_absent)

\* C16 witness: main has ended with NotImplementedError on a configuration
\* with the sizes right, no prefix tuned model and an output file
C16_Witness ==
    /\ cfg # None
    /\ cfg.devices * cfg.num_nodes = 2
    /\ cfg.prefix_tuned_model_file = None
    /\ cfg.output_file # None
    /\ eval_pc = "error"
    /\ eval_err.type = "NotImplementedError"

(* ------------------- claims about the block-scoped rules --------------- *)

\* the leaf of the target key that the claim gives a source key of each rule;
\* the sub-layer index l is looked at for layer_norm alone
ClaimedLeaf(k, l) ==
    IF Contains(k, <<"SelfAttention", "q", "weight">>)
    THEN <<"self_attention", "query_key_value", "weight">>
    ELSE IF Contains(k, <<"SelfAttention", "o", "weight">>)
    THEN <<"self_attention", "dense", "weight">>
    ELSE IF Contains(k, <<"EncDecAttention", "k", "weight">>)
    THEN <<"inter_attention", "key_value", "weight">>
    ELSE IF Contains(k, <<"EncDecAttention", "q", "weight">>)
    THEN <<"inter_attention", "query", "weight">>
    ELSE IF Contains(k, <<"EncDecAttention", "o", "weight">>)
    THEN <<"inter_attention", "dense", "weight">>
    ELSE IF Contains(k, <<"DenseReluDense", "wi_0", "weight">>)
    THEN <<"mlp", "dense_h_to_4h", "weight">>
    ELSE IF Contains(k, <<"DenseReluDense", "wi_1", "weight">>)
    THEN <<"mlp", "dense_h_to_4h_2", "weight">>
    ELSE IF Contains(k, <<"DenseReluDense", "wo", "weight">>)
    THEN <<"mlp", "dense_4h_to_h", "weight">>
    ELSE IF l = 0 THEN <<"input_layernorm", "weight">>
    ELSE IF l = 1 THEN <<"post_attention_layernorm", "weight">>
    ELSE <<"post_inter_attention_layernorm", "weight">>

\* the target key the claim gives a source key handled by a block-scoped
\* rule: the role is 'decoder' for cross-attention and the root module
\* otherwise, the layer index is the integer at position 2
ClaimedTarget(k) ==
    TargetLayer(IF Contains(k, <<"EncDecAttention">>) THEN "decoder" ELSE k[1],
                IntOf(k[3]),
                ClaimedLeaf(k, IntOf(k[5])))

\* the key is one that a block-scoped rule writes a target entry for
WritesBlockEntry(k) ==
    \E leaf \in BlockLeaves : Contains(k, leaf)

\* C17: every source key that a block-scoped rule has handled is in the
\* target under the role of its root module ('decoder' for the three
\* cross-attention rules) and the layer index at position 2 of the key; the
\* index at position 4 chooses the leaf for layer_norm keys and nothing
\* otherwise, and trailing segments change nothing; the target holds no
\* other key.
C17_BlockScopedTargets ==
    /\ \A j \in 1..i :
           WritesBlockEntry(hf_weights[j].k) =>
               Has(nemo_weights, ClaimedTarget(hf_weights[j].k))
    /\ \A t \in KeySet(nemo_weights) :
           \E j \in 1..i :
               /\ WritesBlockEntry(hf_weights[j].k)
               /\ t = ClaimedTarget(hf_weights[j].k)

\* C17 witness: a cross-attention key under the encoder root, in block 3 and
\* sub-layer 2 and with a trailing segment, has been written as the
\* decoder's layer 3
C17_Witness ==
    /\ pc = "saved"
    /\ hf_weights[1].k = <<"encoder", "block", StrOf(MaxLit), "layer", "2",
                           "EncDecAttention", "o", "weight", "extra">>
    /\ Has(state_dict_file.content,
           TargetLayer("decoder", MaxLit, <<"inter_attention", "dense", "weight">>))

\* the target keys that the pass assigns when it handles the source key at
\* position j
AssignedBy(j) ==
    KeySet(LoopBody(hf_weights, <<>>, hf_weights[j].k, hf_weights[j].v).nw)

\* C18 (as claimed): in a run that completes without error no two source
\* keys assign the same target key.
C18_TargetAssignedOnce ==
    pc = "saved" =>
        \A a, b \in 1..Len(hf_weights) :
            a # b => AssignedBy(a) \cap AssignedBy(b) = {}

====
